---- MODULE Spec2Model ----
(***************************************************************************)
(* Model of check_fires (src/main.py): per-sensor feed collection, the     *)
(* normalisation of frp and confidence, intensity, distance, the           *)
(* reliability filter, fire_risk and the final sort.                       *)
(*                                                                         *)
(* A cell of a DataFrame is a record [t, v, s]: a number (t = "num", value *)
(* v), a string (t = "str", characters s, one per element) or a missing    *)
(* value (t = "nan").  Numbers are integers; distances are whole km.       *)
(* The columns acq_time and acq_date only feed the display columns time    *)
(* and date and are left out.  DataFrame index labels are 1-based here.    *)
(***************************************************************************)
EXTENDS Integers, Sequences, FiniteSets, TLC

VARIABLES sat_list, i, feed, dfs, df, confidence_pct, indexer, result, printed, pc

vars == <<sat_list, i, feed, dfs, df, confidence_pct, indexer, result, printed, pc>>

(* ------------------------------ bounds --------------------------------- *)

\* Largest number of rows all sensors together return in one run.
MaxTotalRows == 2

(* ------------------------------ cells ---------------------------------- *)

NaN == [t |-> "nan", v |-> 0, s |-> <<>>]

Num(n) == [t |-> "num", v |-> n, s |-> <<>>]

Str(chars) == [t |-> "str", v |-> 0, s |-> chars]

isna(x) == x.t = "nan"

SATELLITES == <<"MODIS_NRT", "VIIRS_NOAA20_NRT", "VIIRS_SUOMI_NPP_NRT">>

(* --------------------------- string helpers ---------------------------- *)

Whitespace == {" ", "\t"}

Digits == <<"0", "1", "2", "3", "4", "5", "6", "7", "8", "9">>

DigitChars == {Digits[k] : k \in 1..10}

DigitVal(c) == (CHOOSE k \in 1..10 : Digits[k] = c) - 1

Upper == [c \in {"L", "O", "W", "N", "M", "I", "A", "H", "G", "X"} |->
            CASE c = "L" -> "l" [] c = "O" -> "o" [] c = "W" -> "w"
              [] c = "N" -> "n" [] c = "M" -> "m" [] c = "I" -> "i"
              [] c = "A" -> "a" [] c = "H" -> "h" [] c = "G" -> "g"
              [] c = "X" -> "x"]

\* str.lower()
lower(chars) ==
    [k \in 1..Len(chars) |-> IF chars[k] \in DOMAIN Upper THEN Upper[chars[k]] ELSE chars[k]]

RECURSIVE lstrip(_)
lstrip(chars) ==
    IF chars # <<>> /\ Head(chars) \in Whitespace THEN lstrip(Tail(chars)) ELSE chars

RECURSIVE rstrip(_)
rstrip(chars) ==
    IF chars # <<>> /\ chars[Len(chars)] \in Whitespace
    THEN rstrip(SubSeq(chars, 1, Len(chars) - 1))
    ELSE chars

\* str.strip()
strip(chars) == rstrip(lstrip(chars))

RECURSIVE NatToStr(_)
NatToStr(n) ==
    IF n < 10 THEN <<Digits[n + 1]>> ELSE Append(NatToStr(n \div 10), Digits[(n % 10) + 1])

IntToStr(n) == IF n < 0 THEN <<"-">> \o NatToStr(-n) ELSE NatToStr(n)

RECURSIVE StrToNat(_)
StrToNat(chars) ==
    IF chars = <<>> THEN 0
    ELSE 10 * StrToNat(SubSeq(chars, 1, Len(chars) - 1)) + DigitVal(chars[Len(chars)])

\* Series.astype(str), one cell
astype_str(x) ==
    CASE x.t = "str" -> x.s
      [] x.t = "num" -> IntToStr(x.v)
      [] x.t = "nan" -> <<"n", "a", "n">>

\* pd.to_numeric(..., errors='coerce'), one cell: surrounding blanks are
\* skipped, an optional sign and decimal digits are read, anything else is NaN.
to_numeric(x) ==
    CASE x.t = "num" -> x
      [] x.t = "nan" -> NaN
      [] x.t = "str" ->
           LET body == strip(x.s)
               signed == body # <<>> /\ Head(body) \in {"-", "+"}
               digits == IF signed THEN Tail(body) ELSE body
           IN IF digits # <<>> /\ \A k \in 1..Len(digits) : digits[k] \in DigitChars
              THEN Num(IF signed /\ Head(body) = "-" THEN -StrToNat(digits) ELSE StrToNat(digits))
              ELSE NaN

\* Series.fillna(other), one cell
fillna(x, other) == IF isna(x) THEN other ELSE x

\* Series.clip(lo, hi), one cell; a missing value stays missing
clip(x, lo, hi) ==
    IF isna(x) THEN x
    ELSE IF x.v < lo THEN Num(lo) ELSE IF x.v > hi THEN Num(hi) ELSE x

(* ------------------------- normalisation ------------------------------- *)

mapping == (<<"l", "o", "w">> :> 30) @@ (<<"n", "o", "m", "i", "n", "a", "l">> :> 60)
           @@ (<<"h", "i", "g", "h">> :> 90)

\* Variant: the label is compared without trimming.
conf_raw_unstripped(c) == lower(astype_str(c))

conf_raw(c) == lower(strip(astype_str(c)))

mask_map(c) == conf_raw(c) \in DOMAIN mapping

numeric_conf(c) == to_numeric(c)

\* confidence_pct of one row, from the raw confidence cell c
normalize_confidence(c) ==
    LET mapped == IF mask_map(c) THEN Num(mapping[conf_raw(c)]) ELSE NaN
    IN fillna(clip(fillna(mapped, numeric_conf(c)), 0, 100), Num(0))

\* f"{x:.0f}%"
confidence_percent(x) == Append(IntToStr(x.v), "%")

normalize_frp(f) == fillna(to_numeric(f), Num(0))

\* Variant: the lower threshold is inclusive.
intensity_inclusive(frp) ==
    IF frp.v <= 30 THEN "Low" ELSE IF frp.v < 100 THEN "Moderate" ELSE "High"

intensity(frp) ==
    IF frp.v < 30 THEN "Low" ELSE IF frp.v < 100 THEN "Moderate" ELSE "High"

classify_risk(conf) ==
    IF conf.v >= 70 THEN "High" ELSE IF conf.v >= 50 THEN "Medium" ELSE "Low"

\* Variant: the filter uses the Medium threshold.
Reliable_medium(conf) == conf.v >= 50

Reliable(conf) == conf.v >= 40

(* ----------------------------- distance -------------------------------- *)

\* Query centre of the run (lat, lon of check_fires).
RefLat == 0
RefLon == 0

Abs(n) == IF n < 0 THEN -n ELSE n

\* R * c of the haversine formula in whole km, for offsets of 0 or 1 degree
\* from the centre (111.19 km, 157.25 km).
HaversineKm == [d \in {0, 1} \X {0, 1} |->
                  CASE d = <<0, 0>> -> 0
                    [] d = <<1, 0>> -> 111
                    [] d = <<0, 1>> -> 111
                    [] d = <<1, 1>> -> 157]

\* haversine_np for one row: a missing latitude or longitude propagates
haversine_np(lat0, lon0, lat, lon) ==
    IF isna(lat) \/ isna(lon) THEN NaN
    ELSE Num(HaversineKm[<<Abs(lat.v - lat0), Abs(lon.v - lon0)>>])

(* --------------------------- feed responses ---------------------------- *)

Columns == {"latitude", "longitude", "frp", "confidence"}

\* What requests.get / raise_for_status / pd.read_csv yield for one sensor:
\* an exception (timeout, HTTP error status, unparseable body) or a frame.
Failures == {"timeout", "http_error", "parse_error"}

Failed(kind) == [kind |-> kind, columns |-> {}, rows |-> <<>>]

Frame(cols, rows) == [kind |-> "ok", columns |-> cols, rows |-> rows]

Pending == [kind |-> "pending", columns |-> {}, rows |-> <<>>]

\* The except clause of lines 48-50 treats every exception alike.
Raised == [kind |-> "exception", columns |-> {}, rows |-> <<>>]

Outcome(resp) == IF resp.kind \in Failures THEN Raised ELSE resp

FeedRow(lat, lon, frp, conf) ==
    [latitude |-> lat, longitude |-> lon, frp |-> frp, confidence |-> conf]

\* Rows of the multi-sensor runs: confidence below the threshold ("low" = 30),
\* in the band [40,50) and above 70; two distances, a missing latitude and a
\* missing longitude.
PipeConfidence == {Str(<<"l", "o", "w">>), Num(45), Str(<<"H", "i", "g", "h">>)}

PipeCoordinates == {<<Num(0), Num(0)>>, <<Num(1), Num(0)>>, <<NaN, Num(0)>>, <<Num(0), NaN>>}

PipeRows == {FeedRow(at[1], at[2], NaN, c) : at \in PipeCoordinates, c \in PipeConfidence}

SeqsUpTo(S, n) == UNION {[1..k -> S] : k \in 0..n}

\* The responses of at most n rows.
Responses(n) ==
    {Failed(k) : k \in Failures} \cup {Frame(Columns, rows) : rows \in SeqsUpTo(PipeRows, n)}

\* Raw cells of the single-row runs.
RawConfidence ==
    {Str(<<"l", "o", "w">>), Str(<<" ", "L", "o", "w", " ">>), Str(<<"N", "O", "M", "I", "N", "A", "L">>),
     Str(<<"n", "o", "m", "i", "n", "a", "l", "\t">>), Str(<<"h", "i", "g", "h">>), Str(<<" ", "H", "i", "g", "h">>),
     Str(<<"l">>), Str(<<"n">>), Str(<<"h">>), Str(<<"x", "X">>), Str(<<>>), Str(<<"l", "o", " ", "w">>),
     Str(<<"5", "0">>), Str(<<" ", "4", "5", " ">>), Str(<<"-", "5">>), Str(<<"1", "5", "0">>),
     Str(<<"4", "x">>), Str(<<"n", "a", "n">>),
     Num(-5), Num(0), Num(39), Num(40), Num(45), Num(49), Num(50), Num(69), Num(70), Num(100), Num(150),
     NaN}

RawFrp ==
    {Num(-5), Num(0), Num(29), Num(30), Num(99), Num(100), Num(120),
     Str(<<"1", "2">>), Str(<<"-", "7">>), Str(<<"x", "X">>), Str(<<>>), NaN}

RawRows ==
    {FeedRow(lat, lon, frp, c) :
        lat \in {Num(0)}, lon \in {Num(1), NaN}, frp \in RawFrp, c \in RawConfidence}

\* A frame of one row in which some of the optional columns are absent.
RawResponses ==
    {Failed(k) : k \in Failures} \cup {Frame(Columns, <<>>)}
    \cup {Frame(cols, <<[c \in cols |-> r[c]]>>) :
            r \in RawRows, cols \in {Columns \ drop : drop \in SUBSET {"frp", "confidence"}}}

(* ------------------------------ frames --------------------------------- *)

RECURSIVE TotalRows(_)
TotalRows(frames) ==
    IF frames = <<>> THEN 0 ELSE Len(Head(frames).rows) + TotalRows(Tail(frames))

\* Variant: an exception discards the frames collected so far.
append_frame_reset(frames, sat, resp) ==
    IF resp.kind \in Failures THEN <<>>
    ELSE IF resp.rows = <<>> THEN frames
    ELSE Append(frames, [satellite |-> sat, columns |-> resp.columns, rows |-> resp.rows])

\* Lines 43-50 for one sensor: a raised exception and an empty frame leave
\* dfs alone, any other frame is tagged with the sensor and appended.
append_frame(frames, sat, resp) ==
    IF resp.kind # "ok" \/ resp.rows = <<>> THEN frames
    ELSE Append(frames, [satellite |-> sat, columns |-> resp.columns, rows |-> resp.rows])

RECURSIVE FrameColumns(_)
FrameColumns(frames) ==
    IF frames = <<>> THEN {} ELSE Head(frames).columns \cup FrameColumns(Tail(frames))

RECURSIVE ConcatRows(_, _)
ConcatRows(frames, cols) ==
    IF frames = <<>> THEN <<>>
    ELSE LET f == Head(frames)
         IN [k \in 1..Len(f.rows) |->
                [c \in cols \cup {"satellite"} |->
                    IF c = "satellite" THEN Str(<<f.satellite>>)
                    ELSE IF c \in f.columns THEN f.rows[k][c] ELSE NaN]]
            \o ConcatRows(Tail(frames), cols)

\* pd.concat(dfs, ignore_index=True): the frames' rows in list order over the
\* union of their columns, a column a frame lacks being missing in its rows.
concat(frames) == ConcatRows(frames, FrameColumns(frames))

\* Lines 59-61: a required column no frame has is created as all-missing.
column(row, col) == IF col \in DOMAIN row THEN row[col] ELSE NaN

\* Lines 57-89 for the row at index label k of the concatenated frame.
process_row(row, k) ==
    LET frp == normalize_frp(column(row, "frp"))
        conf == normalize_confidence(column(row, "confidence"))
    IN [index |-> k,
        satellite |-> row["satellite"].s[1],
        latitude |-> column(row, "latitude"),
        longitude |-> column(row, "longitude"),
        frp |-> frp,
        intensity |-> intensity(frp),
        confidence_percent |-> confidence_percent(conf),
        distance_km |-> haversine_np(RefLat, RefLon, column(row, "latitude"), column(row, "longitude")),
        fire_risk |-> ""]

(* ------------------------------- report -------------------------------- *)

\* df[confidence_pct >= 40]: the rows keep their index labels.
filter_reliable(frame, cp) == SelectSeq(frame, LAMBDA r : Reliable(cp[r.index]))

\* Variant: the assignment goes by position.
risk_of_position(row, pos, cp) == classify_risk(cp[pos])

\* df['fire_risk'] = confidence_pct.apply(classify_risk): the assignment
\* aligns on the index label of the row, not on its position pos.
risk_of(row, pos, cp) == classify_risk(cp[row.index])

Perms(n) == {p \in [1..n -> 1..n] : \A a, b \in 1..n : p[a] = p[b] => a = b}

\* Variant: na_position='first'.
sort_values_na_first(rows) ==
    {p \in Perms(Len(rows)) :
        \A a, b \in 1..Len(rows) : a < b =>
            LET x == rows[p[a]].distance_km
                y == rows[p[b]].distance_km
            IN /\ ~(~isna(x) /\ isna(y))
               /\ (~isna(x) /\ ~isna(y)) => x.v <= y.v
               /\ (isna(x) /\ isna(y)) => p[a] < p[b]}

\* Variant: the frame is returned unsorted.
sort_values_unsorted(rows) == {[k \in 1..Len(rows) |-> k]}

\* sort_values(by='distance_km'): kind='quicksort' and na_position='last' by
\* default.  The rows with a defined distance come in ascending order, rows of
\* equal distance in an order the sort does not fix; the rows with a missing
\* distance follow in their original order.
sort_values(rows) ==
    {p \in Perms(Len(rows)) :
        \A a, b \in 1..Len(rows) : a < b =>
            LET x == rows[p[a]].distance_km
                y == rows[p[b]].distance_km
            IN /\ ~(isna(x) /\ ~isna(y))
               /\ (~isna(x) /\ ~isna(y)) => x.v <= y.v
               /\ (isna(x) /\ isna(y)) => p[a] < p[b]}

Msg(kind, sat) == [kind |-> kind, sat |-> sat]

(* ------------------------------ actions -------------------------------- *)

SatLists == {p \in [1..Len(SATELLITES) -> {SATELLITES[k] : k \in 1..Len(SATELLITES)}] :
                \A a, b \in 1..Len(SATELLITES) : p[a] = p[b] => a = b}

Start(lists) ==
    /\ sat_list \in lists
    /\ i = 1
    /\ feed = [s \in {SATELLITES[k] : k \in 1..Len(SATELLITES)} |-> Pending]
    /\ dfs = <<>>
    /\ df = <<>>
    /\ confidence_pct = <<>>
    /\ indexer = <<>>
    /\ result = <<>>
    /\ printed = <<>>
    /\ pc = "collect"

\* sat_list is the default list in any order, or a single sensor.
Init == Start(SatLists \cup {<<SATELLITES[1]>>})

\* One iteration of the loop of lines 37-50.
FetchFrom(responses) ==
    /\ pc = "collect"
    /\ i <= Len(sat_list)
    /\ \E resp \in responses :
          /\ TotalRows(dfs) + Len(resp.rows) <= MaxTotalRows
          /\ feed' = [feed EXCEPT ![sat_list[i]] = Outcome(resp)]
          /\ dfs' = append_frame(dfs, sat_list[i], resp)
          /\ printed' = IF resp.kind # "ok" THEN Append(printed, Msg("error", sat_list[i])) ELSE printed
    /\ i' = i + 1
    /\ UNCHANGED <<sat_list, df, confidence_pct, indexer, result, pc>>

Fetch == FetchFrom(Responses(MaxTotalRows - TotalRows(dfs)))

\* A run over a single sensor also draws its row from the raw cells.
FetchRaw == Len(sat_list) = 1 /\ FetchFrom(RawResponses)

\* Variant: the test of line 52 (if not dfs) is missing.
no_data_never(frames) == FALSE

no_data(frames) == frames = <<>>

\* Lines 52-54.
NoData ==
    /\ pc = "collect"
    /\ i > Len(sat_list)
    /\ no_data(dfs)
    /\ printed' = Append(printed, Msg("no_data", ""))
    /\ result' = <<>>
    /\ pc' = "done"
    /\ UNCHANGED <<sat_list, i, feed, dfs, df, confidence_pct, indexer>>

\* Lines 57-89.
Process ==
    /\ pc = "collect"
    /\ i > Len(sat_list)
    /\ ~no_data(dfs)
    /\ LET rows == concat(dfs)
       IN /\ df' = [k \in 1..Len(rows) |-> process_row(rows[k], k)]
          /\ confidence_pct' =
                [k \in 1..Len(rows) |-> normalize_confidence(column(rows[k], "confidence"))]
    /\ pc' = "filter"
    /\ UNCHANGED <<sat_list, i, feed, dfs, indexer, result, printed>>

\* Lines 92-96 when the filter leaves nothing.
NoReliable ==
    /\ pc = "filter"
    /\ filter_reliable(df, confidence_pct) = <<>>
    /\ printed' = Append(printed, Msg("no_reliable", ""))
    /\ result' = <<>>
    /\ pc' = "done"
    /\ UNCHANGED <<sat_list, i, feed, dfs, df, confidence_pct, indexer>>

\* Lines 92-131 when the filter leaves rows: fire_risk, the sort with
\* reset_index(drop=True), the printed table and the returned frame.
Report ==
    /\ pc = "filter"
    /\ LET kept == filter_reliable(df, confidence_pct)
           risked == [k \in 1..Len(kept) |->
                        [kept[k] EXCEPT !.fire_risk = risk_of(kept[k], k, confidence_pct)]]
       IN /\ kept # <<>>
          /\ \E p \in sort_values(risked) :
                /\ indexer' = [k \in 1..Len(risked) |-> risked[p[k]].index]
                /\ result' = [k \in 1..Len(risked) |-> [risked[p[k]] EXCEPT !.index = k]]
    /\ printed' = Append(printed, Msg("alert", ""))
    /\ pc' = "done"
    /\ UNCHANGED <<sat_list, i, feed, dfs, df, confidence_pct>>

Next == Fetch \/ FetchRaw \/ NoData \/ Process \/ NoReliable \/ Report

Spec == Init /\ [][Next]_vars

(* ------------------------- properties: helpers ------------------------- *)

Done == pc = "done"

Processed == pc \in {"filter", "done"} /\ df # <<>>

Sensors == {SATELLITES[k] : k \in 1..Len(SATELLITES)}

\* The sensor answered without an exception and with at least one row.
Contributed(s) == feed[s].kind = "ok" /\ feed[s].rows # <<>>

\* The rows the feed handed out for the first k sensors of sat_list, in
\* arrival order, leaving out the sensors that raised or answered empty.
RECURSIVE Arrived(_)
Arrived(k) ==
    IF k = 0 THEN <<>>
    ELSE LET s == sat_list[k]
         IN IF Contributed(s)
            THEN Arrived(k - 1) \o [n \in 1..Len(feed[s].rows) |->
                    [satellite |-> s, columns |-> feed[s].columns, row |-> feed[s].rows[n]]]
            ELSE Arrived(k - 1)

RECURSIVE ArrivedFrames(_)
ArrivedFrames(k) ==
    IF k = 0 THEN <<>>
    ELSE LET s == sat_list[k]
         IN IF Contributed(s)
            THEN Append(ArrivedFrames(k - 1),
                        [satellite |-> s, columns |-> feed[s].columns, rows |-> feed[s].rows])
            ELSE ArrivedFrames(k - 1)

RECURSIVE FetchedCount(_)
FetchedCount(k) == IF k = 0 THEN 0 ELSE Len(feed[sat_list[k]].rows) + FetchedCount(k - 1)

\* The raw cell of column col in the k-th arrived row; NaN when the sensor's
\* response has no such column.
RawCell(k, col) ==
    LET a == Arrived(Len(sat_list))[k]
    IN IF col \in a.columns THEN a.row[col] ELSE NaN

ColumnAbsent(k, col) == col \notin Arrived(Len(sat_list))[k].columns

Returned(k) == \E j \in 1..Len(indexer) : indexer[j] = k

SameDetection(r, d) ==
    /\ r.satellite = d.satellite
    /\ r.latitude = d.latitude
    /\ r.longitude = d.longitude
    /\ r.frp = d.frp
    /\ r.intensity = d.intensity
    /\ r.confidence_percent = d.confidence_percent
    /\ r.distance_km = d.distance_km

Said(kind) == \E k \in 1..Len(printed) : printed[k].kind = kind

Clamp(n) == IF n < 0 THEN 0 ELSE IF n > 100 THEN 100 ELSE n

\* The percentage each raw confidence cell of the runs stands for: the three
\* labels in any case and with surrounding blanks, numbers and numeric text
\* clamped to [0,100], everything else 0.
ExpectedConfidence(c) ==
    CASE c \in {Str(<<"l", "o", "w">>), Str(<<" ", "L", "o", "w", " ">>)} -> 30
      [] c \in {Str(<<"N", "O", "M", "I", "N", "A", "L">>),
                Str(<<"n", "o", "m", "i", "n", "a", "l", "\t">>)} -> 60
      [] c \in {Str(<<"h", "i", "g", "h">>), Str(<<" ", "H", "i", "g", "h">>),
                Str(<<"H", "i", "g", "h">>)} -> 90
      [] c.t = "num" -> Clamp(c.v)
      [] c = Str(<<"5", "0">>) -> 50
      [] c = Str(<<" ", "4", "5", " ">>) -> 45
      [] c = Str(<<"-", "5">>) -> 0
      [] c = Str(<<"1", "5", "0">>) -> 100
      [] OTHER -> 0

\* The number each raw frp cell of the runs stands for.
ExpectedFrp(f) ==
    CASE f.t = "num" -> f.v
      [] f = Str(<<"1", "2">>) -> 12
      [] f = Str(<<"-", "7">>) -> -7
      [] OTHER -> 0

FrpUnreadable(f) == f \in {NaN, Str(<<"x", "X">>), Str(<<>>)}

Undefined(r) == isna(r.latitude) \/ isna(r.longitude)

(* ------------------------------- claims -------------------------------- *)

\* C1: a fetched row is in the returned dataset if and only if its normalized
\* confidence is >= 40; every returned row has confidence >= 40 and the
\* returned rows are never more than the rows fetched across all sensors.
C1_ReturnedIffReliable ==
    Done =>
        /\ Len(df) = FetchedCount(Len(sat_list))
        /\ \A k \in 1..Len(df) : Returned(k) <=> confidence_pct[k].v >= 40
        /\ Len(result) = Cardinality({k \in 1..Len(df) : Returned(k)})
        /\ Len(result) = Len(indexer)
        /\ \A j \in 1..Len(result) :
              /\ confidence_pct[indexer[j]].v >= 40
              /\ SameDetection(result[j], df[indexer[j]])
        /\ Len(result) <= FetchedCount(Len(sat_list))

\* C1 witness: a finished run that returned some rows and dropped others.
C1_Witness == Done /\ result # <<>> /\ Len(result) < Len(df)

\* C2: every row gets a defined confidence in [0,100]: 30/60/90 for the
\* trimmed, lowercased labels low/nominal/high, otherwise the parsed number
\* clamped to [0,100], otherwise (unparseable, missing, column absent) 0.
C2_ConfidenceNormalized ==
    Processed =>
        /\ Len(confidence_pct) = Len(df)
        /\ Len(df) = Len(Arrived(Len(sat_list)))
        /\ \A k \in 1..Len(df) :
              /\ confidence_pct[k] = Num(ExpectedConfidence(RawCell(k, "confidence")))
              /\ confidence_pct[k].v \in 0..100
              /\ ColumnAbsent(k, "confidence") => confidence_pct[k] = Num(0)

\* C2 witness: a label in mixed case between blanks was mapped to 30.
C2_Witness ==
    /\ Done
    /\ df # <<>>
    /\ RawCell(1, "confidence") = Str(<<" ", "L", "o", "w", " ">>)
    /\ confidence_pct[1] = Num(30)

\* C3: the returned rows are in ascending order of distance_km and every row
\* with a missing latitude or longitude comes after every row with a defined
\* distance.
C3_AscendingUndefinedLast ==
    Done =>
        /\ \A j \in 1..Len(result) : isna(result[j].distance_km) <=> Undefined(result[j])
        /\ \A a, b \in 1..Len(result) : a < b =>
              /\ Undefined(result[a]) => Undefined(result[b])
              /\ (~Undefined(result[a]) /\ ~Undefined(result[b])) =>
                    result[a].distance_km.v <= result[b].distance_km.v

\* C3 witness: a row without coordinates arrived before a row with
\* coordinates and is returned after it.
C3_Witness ==
    /\ Done
    /\ \E a, b \in 1..Len(result) :
          a < b /\ ~Undefined(result[a]) /\ Undefined(result[b]) /\ indexer[b] < indexer[a]

\* C4: the sort is stable: two returned rows of equal distance_km keep their
\* arrival order (sensor list order, then row order within a response).
C4_SortStable ==
    Done =>
        \A a, b \in 1..Len(result) :
            (a < b /\ ~isna(result[a].distance_km)
                   /\ result[a].distance_km = result[b].distance_km)
            => indexer[a] < indexer[b]

\* C5: a failed fetch never aborts the run: every sensor of sat_list is
\* fetched, and the union holds the rows of every sensor that answered with
\* data, as if the failed sensors had not been in the list.
C5_FailureSkipsOnlyThatSensor ==
    /\ dfs = ArrivedFrames(i - 1)
    /\ \A k \in 1..Len(sat_list) : (k < i) <=> feed[sat_list[k]].kind # "pending"
    /\ pc # "collect" => i = Len(sat_list) + 1
    /\ Processed =>
          /\ Len(df) = Len(Arrived(Len(sat_list)))
          /\ \A k \in 1..Len(df) :
                LET a == Arrived(Len(sat_list))[k]
                IN /\ df[k].satellite = a.satellite
                   /\ df[k].latitude = a.row["latitude"]
                   /\ df[k].longitude = a.row["longitude"]

\* C5 witness: the second sensor raised, the first and the third delivered
\* rows and the run returned a report.
C5_Witness ==
    /\ Done
    /\ Len(sat_list) = Len(SATELLITES)
    /\ feed[sat_list[2]].kind = "exception"
    /\ Contributed(sat_list[1])
    /\ Contributed(sat_list[3])
    /\ \E j \in 1..Len(result) : result[j].satellite = sat_list[3]

AnyContributed == \E s \in Sensors : Contributed(s)

AnyReliable ==
    \E k \in 1..Len(Arrived(Len(sat_list))) : ExpectedConfidence(RawCell(k, "confidence")) >= 40

\* C6: the run ends empty in exactly two exclusive ways: "no data" if and
\* only if no sensor contributed a row, "no reliable fires" if and only if
\* rows were contributed but none has confidence >= 40; every other run
\* returns a non-empty report and prints neither message.
C6_EmptyResultMessages ==
    /\ ~Done => ~Said("no_data") /\ ~Said("no_reliable") /\ ~Said("alert")
    /\ Done =>
          /\ Said("no_data") <=> ~AnyContributed
          /\ Said("no_reliable") <=> (AnyContributed /\ ~AnyReliable)
          /\ ~(Said("no_data") /\ Said("no_reliable"))
          /\ (Said("no_data") \/ Said("no_reliable")) <=> result = <<>>
          /\ Said("alert") <=> result # <<>>

\* C6 witness: a sensor raised, another delivered rows, none of them
\* reliable, and the run ended with the "no reliable fires" message.
C6_Witness ==
    /\ Done
    /\ Said("error")
    /\ Said("no_reliable")
    /\ ~Said("no_data")
    /\ df # <<>>

\* The frames of dfs in the order of the default sensor list.
CanonFrames ==
    LET of(s) == SelectSeq(dfs, LAMBDA f : f.satellite = s)
    IN of(SATELLITES[1]) \o of(SATELLITES[2]) \o of(SATELLITES[3])

\* The reports lines 57-131 can return for the frames given.
RunReports(frames) ==
    LET rows == concat(frames)
        frame == [k \in 1..Len(rows) |-> process_row(rows[k], k)]
        cp == [k \in 1..Len(rows) |-> normalize_confidence(column(rows[k], "confidence"))]
        kept == filter_reliable(frame, cp)
        risked == [k \in 1..Len(kept) |-> [kept[k] EXCEPT !.fire_risk = risk_of(kept[k], k, cp)]]
    IN {[k \in 1..Len(risked) |-> [risked[p[k]] EXCEPT !.index = k]] : p \in sort_values(risked)}

DistanceColumn(rows) == [k \in 1..Len(rows) |-> rows[k].distance_km]

Unindexed(r) == [r EXCEPT !.index = 0]

Occurrences(rows, r) == Cardinality({k \in 1..Len(rows) : Unindexed(rows[k]) = Unindexed(r)})

SameRows(x, y) ==
    /\ Len(x) = Len(y)
    /\ \A k \in 1..Len(x) : Occurrences(x, x[k]) = Occurrences(y, x[k])

\* C7 as stated: the order in which the sensors' results are appended has no
\* effect on the report: the same rows in the same order.
C7_AppendOrderIrrelevant == Done => result \in RunReports(CanonFrames)

\* C7 amended: the append order has no effect on which rows are returned nor
\* on the distance_km column of the report; only rows of equal or undefined
\* distance_km can change places.
C7_AppendOrderUpToTies ==
    Done =>
        \A r \in RunReports(CanonFrames) :
            /\ SameRows(r, result)
            /\ DistanceColumn(r) = DistanceColumn(result)

\* C7 witness: frames appended in another order than the default list's gave
\* a report the default order cannot give.
C7_Witness ==
    /\ Done
    /\ dfs # CanonFrames
    /\ Len(result) >= 2
    /\ result \notin RunReports(CanonFrames)

\* C8: after normalization the frp of every detection is a defined
\* non-negative number for any raw value, and no returned row has a negative
\* or undefined frp.
C8_FrpNonNegative ==
    /\ Processed => \A k \in 1..Len(df) : df[k].frp.t = "num" /\ df[k].frp.v >= 0
    /\ Done => \A j \in 1..Len(result) : result[j].frp.t = "num" /\ result[j].frp.v >= 0

\* C9: the fire_risk of each returned row is that of the same row's
\* confidence (High if >= 70, Medium if >= 50, else Low), also after rows
\* were filtered out and reordered; a returned row is Low exactly when its
\* confidence is in [40,50).
C9_RiskOfOwnConfidence ==
    Done =>
        \A j \in 1..Len(result) :
            LET c == ExpectedConfidence(RawCell(indexer[j], "confidence"))
            IN /\ result[j].confidence_percent = Append(IntToStr(c), "%")
               /\ result[j].satellite = Arrived(Len(sat_list))[indexer[j]].satellite
               /\ result[j].fire_risk =
                     (IF c >= 70 THEN "High" ELSE IF c >= 50 THEN "Medium" ELSE "Low")
               /\ result[j].fire_risk = "Low" <=> c \in 40..49

\* C9 witness: a row in [40,50) was returned as Low at another position than
\* it arrived at, after a row before it was filtered out.
C9_Witness ==
    /\ Done
    /\ Len(result) < Len(df)
    /\ \E j \in 1..Len(result) :
          /\ result[j].fire_risk = "Low"
          /\ indexer[j] # j
          /\ ~Returned(1)

\* C10: the intensity of each row depends only on the row's normalized frp:
\* Low below 30, Moderate from 30 to below 100, High from 100; a row whose
\* frp is missing or unparseable is Low.
C10_IntensityOfFrp ==
    Processed =>
        \A k \in 1..Len(df) :
            LET f == ExpectedFrp(RawCell(k, "frp"))
            IN /\ df[k].frp = Num(f)
               /\ df[k].intensity =
                     (IF f < 30 THEN "Low" ELSE IF f < 100 THEN "Moderate" ELSE "High")
               /\ (FrpUnreadable(RawCell(k, "frp")) \/ ColumnAbsent(k, "frp"))
                     => df[k].intensity = "Low"

\* C10 witness: frp exactly 30 is Moderate.
C10_Witness ==
    /\ Done
    /\ df # <<>>
    /\ RawCell(1, "frp") = Num(30)
    /\ df[1].intensity = "Moderate"

====
